---- MODULE Spec2Model ----
(***************************************************************************)
(* Model of douyin_guaji-main/1.py: the ADB device lister, classifier,     *)
(* presenter, selector and reconnector, and the main() flow over them.     *)
(* Python strings are modelled as sequences of one-character strings, so   *)
(* that strip/split/startswith/in/int are computed, not assumed.           *)
(***************************************************************************)
EXTENDS Integers, Sequences, FiniteSets, TLC

VARIABLES
    pc,               \* position in the flow
    adb_result,       \* outcome of the latest `adb devices` run
    devices,          \* main: devices
    online_devices,   \* main: online_devices
    offline_devices,  \* main: offline_devices
    infos,            \* analyze_device results computed by the latest step
    choice,           \* main: choice, the answer to the reconnect question
    idx,              \* position of the for loop in offline_devices
    cmds,             \* adb commands issued so far, in order
    last,             \* the latest reconnect_offline_device call
    first_listing,    \* what the first listing of main returned
    reads,            \* what input() returned to select_online_device
    selected,         \* main: selected_device
    ret               \* what main returned

vars == <<pc, adb_result, devices, online_devices, offline_devices, infos,
          choice, idx, cmds, last, first_listing, reads, selected, ret>>

(***************************************************************************)
(* Bounds of the model.                                                    *)
(***************************************************************************)
MaxLines == 3
MaxFrags == 3
MaxDevices == 3
MaxInputLen == 3
MaxMainDevices == 2

(***************************************************************************)
(* Python str operations on character sequences.                           *)
(***************************************************************************)
\* Optional values: None is the empty sequence, a value x is <<x>>.
None == <<>>

Some(x) == <<x>>

WHITESPACE == {" ", "\t", "\n", "\r"}

\* The k-th smallest element of a finite set of numbers.
Nth(S, k) == CHOOSE x \in S : Cardinality({y \in S : y < x}) = k - 1

\* str.strip(): leading and trailing whitespace removed.
Strip(s) ==
    LET solid(k) == s[k] \notin WHITESPACE
        first == CHOOSE k \in 1..Len(s) : solid(k) /\ \A j \in 1..(k - 1) : ~solid(j)
        final == CHOOSE k \in 1..Len(s) : solid(k) /\ \A j \in (k + 1)..Len(s) : ~solid(j)
    IN  IF \A k \in 1..Len(s) : ~solid(k) THEN <<>>
        ELSE SubSeq(s, first, final)

\* str.split(sep) for a one-character separator: empty fields are kept.
SplitOn(s, sep) ==
    LET cuts == {k \in 1..Len(s) : s[k] = sep}
        n == Cardinality(cuts)
        from(j) == IF j = 1 THEN 1 ELSE Nth(cuts, j - 1) + 1
        upto(j) == IF j = n + 1 THEN Len(s) ELSE Nth(cuts, j) - 1
    IN  [j \in 1..(n + 1) |-> SubSeq(s, from(j), upto(j))]

\* str.split() without argument: runs of whitespace separate, no empty fields.
SplitWS(s) ==
    LET solid(k) == s[k] \notin WHITESPACE
        starts == {k \in 1..Len(s) : solid(k) /\ (k = 1 \/ ~solid(k - 1))}
        ends == {k \in 1..Len(s) : solid(k) /\ (k = Len(s) \/ ~solid(k + 1))}
    IN  [j \in 1..Cardinality(starts) |-> SubSeq(s, Nth(starts, j), Nth(ends, j))]

StartsWith(s, p) == Len(s) >= Len(p) /\ SubSeq(s, 1, Len(p)) = p

\* p in s
Contains(s, p) ==
    \E k \in 0..(Len(s) - Len(p)) : SubSeq(s, k + 1, k + Len(p)) = p

LowerChar(c) ==
    CASE c = "Y" -> "y"
      [] c = "N" -> "n"
      [] c = "E" -> "e"
      [] c = "S" -> "s"
      [] OTHER -> c

Lower(s) == [k \in 1..Len(s) |-> LowerChar(s[k])]

\* Concatenation of a sequence of strings, and with a separator between them.
RECURSIVE Concat(_)
Concat(ss) == IF ss = <<>> THEN <<>> ELSE Head(ss) \o Concat(Tail(ss))

RECURSIVE Join(_, _)
Join(ss, sep) ==
    IF ss = <<>> THEN <<>>
    ELSE IF Len(ss) = 1 THEN ss[1]
    ELSE ss[1] \o sep \o Join(Tail(ss), sep)

SeqsUpTo(S, n) == UNION {[1..k -> S] : k \in 0..n}

(***************************************************************************)
(* String literals of the program.                                         *)
(***************************************************************************)
ADB_PREFIX == <<"a","d","b","-">>
COLON == <<":">>
TLS_MARKER == <<"_","t","l","s","-","c","o","n","n","e","c","t">>
ONLINE == <<"d","e","v","i","c","e">>
CONNECTED == <<"c","o","n","n","e","c","t","e","d">>
YES == <<"y">>

(***************************************************************************)
(* get_adb_devices_with_status: the outcome of running `adb devices` is    *)
(* either an exception (timeout, tool missing, undecodable output) or a    *)
(* completed process with a return code and captured stdout.               *)
(***************************************************************************)
RECURSIVE ParseLines(_)
ParseLines(lines) ==
    IF lines = <<>> THEN <<>>
    ELSE LET line == Strip(Head(lines))
             parts == SplitWS(line)
         IN  (IF line # <<>> /\ Len(parts) >= 2
              THEN <<[id |-> parts[1], status |-> parts[2]]>>
              ELSE <<>>) \o ParseLines(Tail(lines))

\* The lister without the skip of the header line.
get_adb_devices_with_status_noskip(result) ==
    IF result.kind = "raise" THEN <<>>
    ELSE IF result.returncode # 0 THEN <<>>
    ELSE ParseLines(SplitOn(Strip(result.stdout), "\n"))

get_adb_devices_with_status(result) ==
    IF result.kind = "raise" THEN <<>>
    ELSE IF result.returncode # 0 THEN <<>>
    ELSE LET lines == SplitOn(Strip(result.stdout), "\n")
         IN  ParseLines(Tail(lines))

(***************************************************************************)
(* analyze_device                                                          *)
(***************************************************************************)
\* The classifier with the colon test before the prefix test.
analyze_device_colon_first(device_info) ==
    LET device_id == device_info.id
        status == device_info.status
        parts == SplitOn(device_id, ".")
    IN  IF Contains(device_id, COLON)
        THEN [type |-> "wireless", id |-> device_id,
              is_wireless |-> TRUE, status |-> status]
        ELSE IF StartsWith(device_id, ADB_PREFIX)
        THEN [type |-> "mdns_wireless",
              full_id |-> device_id,
              base_id |-> parts[1],
              service_type |-> IF Len(parts) > 1 THEN parts[2] ELSE <<>>,
              protocol |-> IF Len(parts) > 2 THEN parts[3] ELSE <<>>,
              is_encrypted |-> Contains(device_id, TLS_MARKER),
              is_wireless |-> TRUE,
              status |-> status]
        ELSE [type |-> "usb", id |-> device_id,
              is_wireless |-> FALSE, status |-> status]

analyze_device(device_info) ==
    LET device_id == device_info.id
        status == device_info.status
        parts == SplitOn(device_id, ".")
    IN  IF StartsWith(device_id, ADB_PREFIX)
        THEN [type |-> "mdns_wireless",
              full_id |-> device_id,
              base_id |-> parts[1],
              service_type |-> IF Len(parts) > 1 THEN parts[2] ELSE <<>>,
              protocol |-> IF Len(parts) > 2 THEN parts[3] ELSE <<>>,
              is_encrypted |-> Contains(device_id, TLS_MARKER),
              is_wireless |-> TRUE,
              status |-> status]
        ELSE IF Contains(device_id, COLON)
        THEN [type |-> "wireless", id |-> device_id,
              is_wireless |-> TRUE, status |-> status]
        ELSE [type |-> "usb", id |-> device_id,
              is_wireless |-> FALSE, status |-> status]

\* info.get('is_encrypted', False)
GetIsEncrypted(info) ==
    IF "is_encrypted" \in DOMAIN info THEN info.is_encrypted ELSE FALSE

(***************************************************************************)
(* display_devices: the partition loop; the printing loops call            *)
(* analyze_device on every online and then every offline record.           *)
(***************************************************************************)
\* The status test as a prefix match instead of equality.
IsOnline_prefix(device) == StartsWith(device.status, ONLINE)

IsOnline(device) == device.status = ONLINE

RECURSIVE PartitionLoop(_, _, _)
PartitionLoop(rest, online, offline) ==
    IF rest = <<>> THEN <<online, offline>>
    ELSE IF IsOnline(Head(rest))
         THEN PartitionLoop(Tail(rest), Append(online, Head(rest)), offline)
         ELSE PartitionLoop(Tail(rest), online, Append(offline, Head(rest)))

\* The presenter returning its two lists in the other order.
display_devices_swapped(devs) ==
    <<PartitionLoop(devs, <<>>, <<>>)[2], PartitionLoop(devs, <<>>, <<>>)[1]>>

display_devices(devs) == PartitionLoop(devs, <<>>, <<>>)

DisplayedInfos(devs) ==
    LET p == display_devices(devs)
        shown == p[1] \o p[2]
    IN  [k \in 1..Len(shown) |-> analyze_device(shown[k])]

(***************************************************************************)
(* int(str): surrounding whitespace stripped, an optional sign, then       *)
(* decimal digits, single underscores allowed between digits.              *)
(***************************************************************************)
DIGITS == {"0", "1", "2", "3", "4", "5", "6", "7", "8", "9"}

DigitVal(c) ==
    CASE c = "0" -> 0 [] c = "1" -> 1 [] c = "2" -> 2 [] c = "3" -> 3
      [] c = "4" -> 4 [] c = "5" -> 5 [] c = "6" -> 6 [] c = "7" -> 7
      [] c = "8" -> 8 [] c = "9" -> 9

RECURSIVE DigitsVal(_, _)
DigitsVal(s, acc) ==
    IF s = <<>> THEN acc
    ELSE IF Head(s) = "_" THEN DigitsVal(Tail(s), acc)
    ELSE DigitsVal(Tail(s), 10 * acc + DigitVal(Head(s)))

WellFormedDigits(s) ==
    /\ s # <<>>
    /\ \A k \in 1..Len(s) : s[k] \in DIGITS \cup {"_"}
    /\ s[1] # "_"
    /\ s[Len(s)] # "_"
    /\ \A k \in 1..(Len(s) - 1) : ~(s[k] = "_" /\ s[k + 1] = "_")

\* [ok |-> FALSE] stands for ValueError.
ParseInt(text) ==
    LET t == Strip(text)
        signed == t # <<>> /\ t[1] \in {"+", "-"}
        body == IF signed THEN Tail(t) ELSE t
    IN  IF WellFormedDigits(body)
        THEN [ok |-> TRUE,
              val |-> IF signed /\ t[1] = "-" THEN 0 - DigitsVal(body, 0)
                      ELSE DigitsVal(body, 0)]
        ELSE [ok |-> FALSE, val |-> 0]

(***************************************************************************)
(* select_online_device: `typed` is what input() returns when it is read;  *)
(* the result says what was selected and whether input() was called.       *)
(***************************************************************************)
\* The bounds test with the upper bound excluded.
InRange_exclusive(k, n) == 1 <= k /\ k < n

InRange(k, n) == 1 <= k /\ k <= n

select_online_device(online, typed) ==
    IF online = <<>> THEN [selected |-> None, read |-> FALSE]
    ELSE IF Len(online) = 1 THEN [selected |-> Some(online[1]), read |-> FALSE]
    ELSE LET c == ParseInt(typed)
         IN  IF c.ok /\ InRange(c.val, Len(online))
             THEN [selected |-> Some(online[c.val]), read |-> TRUE]
             ELSE [selected |-> None, read |-> TRUE]

(***************************************************************************)
(* reconnect_offline_device and the tests of main()                        *)
(***************************************************************************)
\* The form test with the prefix test negated.
IsWirelessForm_negated(device_id) ==
    Contains(device_id, COLON) \/ ~StartsWith(device_id, ADB_PREFIX)

IsWirelessForm(device_id) ==
    Contains(device_id, COLON) \/ StartsWith(device_id, ADB_PREFIX)

\* The success test as a prefix match instead of a substring match.
ConnectReportsSuccess_prefix(stdout) == StartsWith(stdout, CONNECTED)

ConnectReportsSuccess(stdout) == Contains(stdout, CONNECTED)

\* The test of line 191 without its first half.
NeedsReconnect_anyOffline(online, offline) == offline # <<>>

NeedsReconnect(online, offline) == online = <<>> /\ offline # <<>>

Confirmed(answer) == Lower(answer) = YES

\* The loop without its break.
BreakOnOnline_never(online) == FALSE

BreakOnOnline(online) == online # <<>>

(***************************************************************************)
(* Inputs: what the external tool prints and what the user types.          *)
(***************************************************************************)
HEADER == <<"L","i","s","t"," ","o","f"," ","d","e","v","i","c","e","s",
            " ","a","t","t","a","c","h","e","d">>
OFFLINE == <<"o","f","f","l","i","n","e">>
UNAUTHORIZED == <<"u","n","a","u","t","h","o","r","i","z","e","d">>
USB_ID == <<"u","1">>
WIFI_ID == <<"1",":","5">>
MDNS_ID == <<"a","d","b","-","m">>
NL == <<"\n">>
TAB == <<"\t">>

\* The listing of the specification's example.
EXAMPLE_WIFI_ID == <<"1","9","2",".","1","6","8",".","1",".","5",":","5","5","5","5">>
EXAMPLE_MDNS_ID == <<"a","d","b","-","A","B","C","1","2","3",".","_","a","d","b","-",
                     "t","l","s","-","c","o","n","n","e","c","t",".","_","t","c","p","." >>
EXAMPLE_TEXT ==
    HEADER \o NL \o EXAMPLE_WIFI_ID \o <<" "," "," "," ">> \o ONLINE \o NL
           \o EXAMPLE_MDNS_ID \o <<" "," "," ">> \o OFFLINE \o NL

\* Lines the lister is tried on: blank, whitespace only, one token, two
\* tokens, padded, three tokens, and the header.
LineForms ==
    { <<>>, <<" ", "\t">>, USB_ID, USB_ID \o TAB \o ONLINE,
      <<" ">> \o WIFI_ID \o <<" ", " ">> \o OFFLINE \o <<" ">>,
      MDNS_ID \o TAB \o UNAUTHORIZED \o <<" ", "x">>, HEADER }

ListerTexts ==
    {Join(ls, NL) : ls \in SeqsUpTo(LineForms, MaxLines)} \cup {EXAMPLE_TEXT}

Raised == [kind |-> "raise", returncode |-> 0, stdout |-> <<>>]

Completed(rcode, text) == [kind |-> "completed", returncode |-> rcode, stdout |-> text]

ListerResults ==
    {Raised} \cup {Completed(rcode, t) : rcode \in {0, 1}, t \in ListerTexts}

\* Ids the classifier is tried on: concatenations of fragments of the
\* prefix, the colon and the marker.
Frags ==
    { ADB_PREFIX, <<"a","d">>, <<"b","-">>, COLON, TLS_MARKER,
      <<"_","t","l","s">>, <<"-","c","o","n","n","e","c","t">>, <<"x",".">> }

ClassifyIds == {Concat(fs) : fs \in SeqsUpTo(Frags, MaxFrags)} \ {<<>>}

PartitionRecords ==
    [id : {USB_ID, WIFI_ID},
     status : {ONLINE, OFFLINE, ONLINE \o <<"s">>, <<"D","e","v","i","c","e">>}]

OnlineRecords == [id : {USB_ID, WIFI_ID}, status : {ONLINE}]

InputChars == {"0", "1", "2", "3", " ", "-", "+", "x", "_"}

TypedInputs == SeqsUpTo(InputChars, MaxInputLen)

\* Listings main() is run on: the header and up to MaxMainDevices records.
MainLines ==
    { USB_ID \o TAB \o OFFLINE, WIFI_ID \o TAB \o OFFLINE, MDNS_ID \o TAB \o OFFLINE,
      USB_ID \o TAB \o ONLINE, WIFI_ID \o TAB \o ONLINE }

ListingOf(ls) == Completed(0, Join(<<HEADER>> \o ls, NL) \o NL)

MainResults ==
    {Raised, Completed(1, <<>>)}
      \cup {ListingOf(ls) : ls \in SeqsUpTo(MainLines, MaxMainDevices)}

\* Listings the re-listing of the reconnect pass is run on.
RelistLines ==
    { WIFI_ID \o TAB \o OFFLINE, WIFI_ID \o TAB \o ONLINE, USB_ID \o TAB \o ONLINE }

RelistResults ==
    {Raised} \cup {ListingOf(ls) : ls \in SeqsUpTo(RelistLines, MaxMainDevices)}

Answers == { <<"y">>, <<"Y">>, <<"n">>, <<"y","e","s">> }

MainInputs == { <<"1">>, <<"3">>, <<"x">> }

DisconnectOutcomes == {"ok", "nonzero", "raise"}

ConnectStdouts ==
    { CONNECTED \o <<" ","t","o">>,
      <<"a","l","r","e","a","d","y"," ">> \o CONNECTED,
      <<"f","a","i","l","e","d"," ","t","o"," ","c","o","n","n","e","c","t">> }

ConnectOutcomes ==
    {[kind |-> "raise", stdout |-> <<>>]}
      \cup {[kind |-> "completed", stdout |-> t] : t \in ConnectStdouts}

NoAttempt == [id |-> <<>>, dis |-> "none", con |-> [kind |-> "none", stdout |-> <<>>],
              rc |-> "none"]

(***************************************************************************)
(* The functions on their own: each is applied to inputs drawn in Init.    *)
(***************************************************************************)
Rest ==
    /\ infos = <<>>
    /\ choice = <<>>
    /\ idx = 0
    /\ cmds = <<>>
    /\ last = NoAttempt
    /\ first_listing = <<>>
    /\ reads = <<>>
    /\ selected = None
    /\ ret = None

\* devices = get_adb_devices_with_status()
CallLister ==
    /\ pc = "start"
    /\ devices' = get_adb_devices_with_status(adb_result)
    /\ cmds' = Append(cmds, <<"devices", <<>>>>)
    /\ pc' = "listed"
    /\ UNCHANGED <<adb_result, online_devices, offline_devices, infos, choice, idx,
                   last, first_listing, reads, selected, ret>>

\* online_devices, offline_devices = display_devices(devices)
CallDisplay ==
    /\ pc = "listed"
    /\ online_devices' = display_devices(devices)[1]
    /\ offline_devices' = display_devices(devices)[2]
    /\ infos' = DisplayedInfos(devices)
    /\ pc' = "displayed"
    /\ UNCHANGED <<adb_result, devices, choice, idx, cmds, last, first_listing,
                   reads, selected, ret>>

\* analyze_device(devices[0])
CallAnalyze ==
    /\ pc = "classify"
    /\ infos' = <<analyze_device(devices[1])>>
    /\ pc' = "classified"
    /\ UNCHANGED <<adb_result, devices, online_devices, offline_devices, choice, idx,
                   cmds, last, first_listing, reads, selected, ret>>

\* selected = select_online_device(online_devices)
CallSelect ==
    /\ pc = "choose"
    /\ \E typed \in TypedInputs :
          LET r == select_online_device(online_devices, typed)
          IN  /\ selected' = r.selected
              /\ reads' = IF r.read THEN <<typed>> ELSE <<>>
    /\ pc' = "chosen"
    /\ UNCHANGED <<adb_result, devices, online_devices, offline_devices, infos, choice,
                   idx, cmds, last, first_listing, ret>>

InitLister ==
    /\ pc = "start"
    /\ adb_result \in ListerResults
    /\ devices = <<>>
    /\ online_devices = <<>>
    /\ offline_devices = <<>>
    /\ Rest

NextLister == CallLister \/ CallDisplay

SpecLister == InitLister /\ [][NextLister]_vars

InitClassify ==
    /\ pc = "classify"
    /\ adb_result = Raised
    /\ devices \in {<<[id |-> i, status |-> st]>> : i \in ClassifyIds, st \in {ONLINE, OFFLINE}}
    /\ online_devices = <<>>
    /\ offline_devices = <<>>
    /\ Rest

NextClassify == CallAnalyze

SpecClassify == InitClassify /\ [][NextClassify]_vars

InitPartition ==
    /\ pc = "listed"
    /\ adb_result = Raised
    /\ devices \in SeqsUpTo(PartitionRecords, MaxDevices)
    /\ online_devices = <<>>
    /\ offline_devices = <<>>
    /\ Rest

NextPartition == CallDisplay

SpecPartition == InitPartition /\ [][NextPartition]_vars

InitSelect ==
    /\ pc = "choose"
    /\ adb_result = Raised
    /\ devices = <<>>
    /\ online_devices \in SeqsUpTo(OnlineRecords, MaxDevices)
    /\ offline_devices = <<>>
    /\ Rest

NextSelect == CallSelect

SpecSelect == InitSelect /\ [][NextSelect]_vars

(***************************************************************************)
(* main(): one step per interaction with the tool or the user.             *)
(***************************************************************************)
Init ==
    /\ pc = "start"
    /\ adb_result = Raised
    /\ devices = <<>>
    /\ online_devices = <<>>
    /\ offline_devices = <<>>
    /\ Rest

\* The for loop moves to the next offline device, or ends.
NextDevice ==
    /\ idx' = idx + 1
    /\ pc' = IF idx + 1 <= Len(offline_devices) THEN "disconnect" ELSE "select"

\* Lines 182-191: the first listing, the display, the test of line 191.
MainList ==
    /\ pc = "start"
    /\ \E r \in MainResults :
          LET devs == get_adb_devices_with_status(r)
              parts == display_devices(devs)
          IN  /\ adb_result' = r
              /\ devices' = devs
              /\ first_listing' = devs
              /\ cmds' = Append(cmds, <<"devices", <<>>>>)
              /\ IF devs = <<>>
                 THEN /\ ret' = None
                      /\ pc' = "done"
                      /\ UNCHANGED <<online_devices, offline_devices, infos>>
                 ELSE /\ online_devices' = parts[1]
                      /\ offline_devices' = parts[2]
                      /\ infos' = DisplayedInfos(devs)
                      /\ pc' = IF NeedsReconnect(parts[1], parts[2]) THEN "ask" ELSE "select"
                      /\ UNCHANGED ret
    /\ UNCHANGED <<choice, idx, last, reads, selected>>

\* Lines 193-195: the question, and the entry of the for loop.
MainAsk ==
    /\ pc = "ask"
    /\ \E answer \in Answers :
          /\ choice' = answer
          /\ IF Confirmed(answer)
             THEN /\ idx' = 1
                  /\ pc' = "disconnect"
             ELSE /\ pc' = "select"
                  /\ UNCHANGED idx
    /\ UNCHANGED <<adb_result, devices, online_devices, offline_devices, infos, cmds,
                   last, first_listing, reads, selected, ret>>

\* Lines 145-157, 170-176: adb disconnect, then the test of the id's form.
MainDisconnect ==
    /\ pc = "disconnect"
    /\ LET device_id == offline_devices[idx].id
       IN  /\ cmds' = Append(cmds, <<"disconnect", device_id>>)
           /\ \E d \in DisconnectOutcomes :
                 LET call == [id |-> device_id, dis |-> d,
                              con |-> [kind |-> "none", stdout |-> <<>>], rc |-> "false"]
                 IN  IF d = "raise"
                     THEN last' = call /\ NextDevice
                     ELSE IF IsWirelessForm(device_id)
                     THEN /\ last' = [call EXCEPT !.rc = "pending"]
                          /\ pc' = "connect"
                          /\ UNCHANGED idx
                     ELSE last' = call /\ NextDevice
    /\ UNCHANGED <<adb_result, devices, online_devices, offline_devices, infos, choice,
                   first_listing, reads, selected, ret>>

\* Lines 158-169, 174-176: adb connect and the test of its output.
MainConnect ==
    /\ pc = "connect"
    /\ cmds' = Append(cmds, <<"connect", last.id>>)
    /\ \E c \in ConnectOutcomes :
          IF c.kind = "completed" /\ ConnectReportsSuccess(c.stdout)
          THEN /\ last' = [last EXCEPT !.con = c, !.rc = "true"]
               /\ pc' = "relist"
               /\ UNCHANGED idx
          ELSE /\ last' = [last EXCEPT !.con = c, !.rc = "false"]
               /\ NextDevice
    /\ UNCHANGED <<adb_result, devices, online_devices, offline_devices, infos, choice,
                   first_listing, reads, selected, ret>>

\* Lines 196-201: after a successful reconnect, list and display again.
MainRelist ==
    /\ pc = "relist"
    /\ \E r \in RelistResults :
          LET devs == get_adb_devices_with_status(r)
              parts == display_devices(devs)
          IN  /\ adb_result' = r
              /\ devices' = devs
              /\ cmds' = Append(cmds, <<"devices", <<>>>>)
              /\ online_devices' = parts[1]
              /\ infos' = DisplayedInfos(devs)
              /\ IF BreakOnOnline(parts[1])
                 THEN pc' = "select" /\ UNCHANGED idx
                 ELSE NextDevice
    /\ UNCHANGED <<offline_devices, choice, last, first_listing, reads, selected, ret>>

\* Lines 204-218: the selection and the value main returns.
MainSelect ==
    /\ pc = "select"
    /\ \E typed \in MainInputs :
          LET r == select_online_device(online_devices, typed)
          IN  /\ selected' = r.selected
              /\ reads' = IF r.read THEN <<typed>> ELSE <<>>
              /\ IF r.selected # None
                 THEN /\ infos' = <<analyze_device(r.selected[1])>>
                      /\ ret' = Some(r.selected[1].id)
                 ELSE /\ ret' = None
                      /\ UNCHANGED infos
    /\ pc' = "done"
    /\ UNCHANGED <<adb_result, devices, online_devices, offline_devices, choice, idx,
                   cmds, last, first_listing>>

Next ==
    \/ MainList
    \/ MainAsk
    \/ MainDisconnect
    \/ MainConnect
    \/ MainRelist
    \/ MainSelect

Spec == Init /\ [][Next]_vars

(***************************************************************************)
(* Vocabulary of the properties, written from the specification's words.   *)
(***************************************************************************)
StatusIsDevice(r) == r.status = <<"d","e","v","i","c","e">>

HasAdbPrefix(id) ==
    Len(id) >= 4 /\ id[1] = "a" /\ id[2] = "d" /\ id[3] = "b" /\ id[4] = "-"

HasColon(id) == \E k \in 1..Len(id) : id[k] = ":"

HasTlsMarker(id) ==
    \E k \in 0..(Len(id) - 12) :
        SubSeq(id, k + 1, k + 12) = <<"_","t","l","s","-","c","o","n","n","e","c","t">>

WirelessFormId(id) == HasColon(id) \/ HasAdbPrefix(id)

SaysConnected(text) ==
    \E k \in 0..(Len(text) - 9) :
        SubSeq(text, k + 1, k + 9) = <<"c","o","n","n","e","c","t","e","d">>

\* One record per line with at least two tokens, in order.
RecordsOf(lines) ==
    LET kept == SelectSeq(lines, LAMBDA l : Len(SplitWS(l)) >= 2)
    IN  [k \in 1..Len(kept) |->
            [id |-> SplitWS(kept[k])[1], status |-> SplitWS(kept[k])[2]]]

CommandFailed(r) == r.kind = "raise" \/ r.returncode # 0

CmdsNamed(name) == SelectSeq(cmds, LAMBDA c : c[1] = name)

ReconnectCmds == SelectSeq(cmds, LAMBDA c : c[1] # "devices")

\* The commands of the latest reconnect call: from its disconnect on.
LastAttemptCmds ==
    LET rc == ReconnectCmds
        starts == {k \in 1..Len(rc) : rc[k][1] = "disconnect"}
    IN  IF starts = {} THEN <<>>
        ELSE SubSeq(rc, CHOOSE k \in starts : \A j \in starts : j <= k, Len(rc))

Count(r, seq) == Cardinality({k \in 1..Len(seq) : seq[k] = r})

(***************************************************************************)
(* C1 (stated as claimed; SpecLister): the example listing yields two      *)
(* records in order, the first of type wireless and online, the second of  *)
(* type mdns_wireless with is_encrypted true and offline.                  *)
(***************************************************************************)
C1_ExampleListing ==
    (pc = "displayed" /\ adb_result = Completed(0, EXAMPLE_TEXT)) =>
        /\ Len(devices) = 2
        /\ devices[1] = [id |-> EXAMPLE_WIFI_ID, status |-> ONLINE]
        /\ devices[2] = [id |-> EXAMPLE_MDNS_ID, status |-> OFFLINE]
        /\ infos[1].type = "wireless"
        /\ online_devices = <<devices[1]>>
        /\ infos[2].type = "mdns_wireless"
        /\ GetIsEncrypted(infos[2]) = TRUE
        /\ offline_devices = <<devices[2]>>

\* Everything the example says except the encryption flag, which is false.
C1_ExampleAsComputed ==
    (pc = "displayed" /\ adb_result = Completed(0, EXAMPLE_TEXT)) =>
        /\ Len(devices) = 2
        /\ devices[1] = [id |-> EXAMPLE_WIFI_ID, status |-> ONLINE]
        /\ devices[2] = [id |-> EXAMPLE_MDNS_ID, status |-> OFFLINE]
        /\ infos[1].type = "wireless"
        /\ online_devices = <<devices[1]>>
        /\ infos[2].type = "mdns_wireless"
        /\ GetIsEncrypted(infos[2]) = FALSE
        /\ offline_devices = <<devices[2]>>

(***************************************************************************)
(* C9 (as amended; SpecLister): the lister returns the empty sequence when *)
(* the command raises or exits non-zero; otherwise it strips the output of *)
(* leading and trailing whitespace, skips the first line of what is left   *)
(* (the first non-blank line) and returns, in order, one record {id: first *)
(* token, status: second token} per remaining line with at least two       *)
(* tokens, dropping the others.                                            *)
(***************************************************************************)
C9_Lister ==
    pc # "start" =>
        devices = IF CommandFailed(adb_result) THEN <<>>
                  ELSE RecordsOf(Tail(SplitOn(Strip(adb_result.stdout), "\n")))

\* C9 as claimed: the line skipped is the first line of the output.
C9_Original ==
    pc # "start" =>
        devices = IF CommandFailed(adb_result) THEN <<>>
                  ELSE RecordsOf(Tail(SplitOn(adb_result.stdout, "\n")))

C9_Witness ==
    /\ pc = "listed"
    /\ ~CommandFailed(adb_result)
    /\ adb_result.stdout # <<>>
    /\ adb_result.stdout[1] = "\n"
    /\ Len(devices) = 1
    /\ Len(SplitOn(adb_result.stdout, "\n")) = 3

(***************************************************************************)
(* C8 (SpecClassify): the type is decided by the id alone, the prefix test *)
(* first: an id starting with adb- is mdns_wireless, with is_encrypted     *)
(* true iff _tls-connect occurs in it; an id with a colon and without the  *)
(* prefix is wireless; any other id is usb; is_wireless is true exactly    *)
(* for the two non-usb types.                                              *)
(***************************************************************************)
C8_Classification ==
    pc = "classified" =>
        LET id == devices[1].id
            info == infos[1]
        IN  /\ info.type \in {"mdns_wireless", "wireless", "usb"}
            /\ info.type = "mdns_wireless" <=> HasAdbPrefix(id)
            /\ info.type = "wireless" <=> (HasColon(id) /\ ~HasAdbPrefix(id))
            /\ info.type = "usb" <=> (~HasColon(id) /\ ~HasAdbPrefix(id))
            /\ HasAdbPrefix(id) => (info.is_encrypted <=> HasTlsMarker(id))
            /\ info.is_wireless <=> info.type # "usb"
            /\ info.status = devices[1].status

C8_Witness ==
    /\ pc = "classified"
    /\ HasAdbPrefix(devices[1].id)
    /\ HasColon(devices[1].id)
    /\ HasTlsMarker(devices[1].id)
    /\ infos[1].type = "mdns_wireless"
    /\ infos[1].is_encrypted

(***************************************************************************)
(* C7 (SpecPartition): online holds exactly the records whose status is    *)
(* device, offline all the others, each in input order, and together they  *)
(* hold every input record as often as the input does.                     *)
(***************************************************************************)
C7_Partition ==
    pc = "displayed" =>
        /\ \A k \in 1..Len(online_devices) : StatusIsDevice(online_devices[k])
        /\ \A k \in 1..Len(offline_devices) : ~StatusIsDevice(offline_devices[k])
        /\ Len(online_devices) + Len(offline_devices) = Len(devices)
        /\ \A k \in 1..Len(devices) :
              Count(devices[k], online_devices) + Count(devices[k], offline_devices)
                = Count(devices[k], devices)
        /\ online_devices = SelectSeq(devices, StatusIsDevice)
        /\ offline_devices = SelectSeq(devices, LAMBDA r : ~StatusIsDevice(r))

C7_Witness ==
    /\ pc = "displayed"
    /\ Len(devices) = 3
    /\ devices[1] = devices[3]
    /\ Len(online_devices) = 2
    /\ Len(offline_devices) = 1
    /\ StartsWith(offline_devices[1].status, ONLINE)

(***************************************************************************)
(* C6 (SpecSelect): the empty list yields nothing and a one-element list   *)
(* its element, both without reading input; a longer list reads one input  *)
(* and yields the element at the 1-based index the input denotes when that *)
(* is between 1 and the length, and nothing for every other input.         *)
(***************************************************************************)
C6_Select ==
    pc = "chosen" =>
        LET n == Len(online_devices)
        IN  /\ n = 0 => (selected = None /\ reads = <<>>)
            /\ n = 1 => (selected = Some(online_devices[1]) /\ reads = <<>>)
            /\ n >= 2 =>
                  /\ Len(reads) = 1
                  /\ LET typed == ParseInt(reads[1])
                     IN  IF typed.ok /\ typed.val >= 1 /\ typed.val <= n
                         THEN selected = Some(online_devices[typed.val])
                         ELSE selected = None

C6_Witness ==
    /\ pc = "chosen"
    /\ Len(online_devices) = 2
    /\ online_devices[1] # online_devices[2]
    /\ reads = << <<" ", "2">> >>
    /\ selected = Some(online_devices[2])

(***************************************************************************)
(* C2 (as amended; Spec): a finished reconnect call on a wireless-form id  *)
(* issued a disconnect first. If running the disconnect raised (execution  *)
(* error or timeout), no connect was issued and the call returned false.   *)
(* Otherwise, whatever the disconnect's exit status, a connect followed,   *)
(* and the call returned true iff the connect command completed and its    *)
(* captured output contains 'connected'.                                   *)
(***************************************************************************)
C2_Reconnect ==
    (last.rc \in {"true", "false"} /\ WirelessFormId(last.id)) =>
        IF last.dis = "raise"
        THEN /\ LastAttemptCmds = << <<"disconnect", last.id>> >>
             /\ last.rc = "false"
        ELSE /\ LastAttemptCmds = << <<"disconnect", last.id>>, <<"connect", last.id>> >>
             /\ last.rc = "true" <=>
                   (last.con.kind = "completed" /\ SaysConnected(last.con.stdout))

\* C2 as claimed: a failure of the disconnect is ignored, the connect is
\* still issued, and the result is decided by the connect's output.
C2_Original ==
    (last.rc \in {"true", "false"} /\ WirelessFormId(last.id)) =>
        /\ LastAttemptCmds = << <<"disconnect", last.id>>, <<"connect", last.id>> >>
        /\ last.rc = "true" <=> SaysConnected(last.con.stdout)

C2_Witness ==
    /\ WirelessFormId(last.id)
    /\ last.dis = "nonzero"
    /\ last.rc = "true"
    /\ ~StartsWith(last.con.stdout, CONNECTED)
    /\ LastAttemptCmds = << <<"disconnect", last.id>>, <<"connect", last.id>> >>

(***************************************************************************)
(* C3 (as amended; Spec): a finished reconnect call on a USB-form id       *)
(* returned false having issued exactly one command, the disconnect; no    *)
(* connect command is ever issued for a USB-form id.                       *)
(***************************************************************************)
C3_UsbReconnect ==
    /\ (last.rc # "none" /\ ~WirelessFormId(last.id)) =>
          /\ last.rc = "false"
          /\ LastAttemptCmds = << <<"disconnect", last.id>> >>
    /\ \A k \in 1..Len(cmds) : cmds[k][1] = "connect" => WirelessFormId(cmds[k][2])

\* C3 as claimed: no command at all was issued for the USB-form id.
C3_Original ==
    (last.rc # "none" /\ ~WirelessFormId(last.id)) =>
        /\ last.rc = "false"
        /\ \A k \in 1..Len(cmds) : cmds[k][2] # last.id

C3_Witness ==
    /\ last.id = USB_ID
    /\ last.dis = "ok"
    /\ last.rc = "false"
    /\ cmds[Len(cmds)] = <<"disconnect", USB_ID>>

(***************************************************************************)
(* C4 (as amended; Spec): in the reconnect pass the devices are listed and *)
(* partitioned again after each successful reconnect and not after a       *)
(* failed one, and the pass attempts a device only while the latest        *)
(* listing has no online device: once a re-listing has one, it stops.      *)
(***************************************************************************)
C4_RelistAfterSuccess ==
    /\ last.rc = "false" =>
          /\ cmds[Len(cmds)][1] \in {"disconnect", "connect"}
          /\ cmds[Len(cmds)][2] = last.id
    /\ last.rc = "true" =>
          IF pc = "relist" THEN cmds[Len(cmds)] = <<"connect", last.id>>
          ELSE cmds[Len(cmds)] = <<"devices", <<>>>>
    /\ pc \in {"disconnect", "connect", "relist"} =>
          \A k \in 1..Len(online_devices) : ~StatusIsDevice(online_devices[k])
    /\ (last.rc = "true" /\ pc # "relist"
          /\ \E k \in 1..Len(devices) : StatusIsDevice(devices[k])) =>
          pc \in {"select", "done"}

\* C4 as claimed: every attempt, failed ones too, is followed by a listing.
C4_Original ==
    pc \in {"disconnect", "select", "done"} =>
        Len(CmdsNamed("devices")) = 1 + Len(CmdsNamed("disconnect"))

C4_Witness ==
    /\ pc = "select"
    /\ last.rc = "true"
    /\ idx < Len(offline_devices)
    /\ online_devices # <<>>
    /\ Len(CmdsNamed("devices")) = 2
    /\ Len(CmdsNamed("disconnect")) = 1

(***************************************************************************)
(* C5 (Spec): disconnect and connect commands are issued only when the     *)
(* first listing had no online and at least one offline device and the     *)
(* answer was y or Y; the disconnects go through the first listing's       *)
(* offline records in order, one per record at most, and each connect      *)
(* directly follows the disconnect of the same id.                         *)
(***************************************************************************)
C5_ReconnectOnlyInPass ==
    LET dis == CmdsNamed("disconnect")
    IN  /\ ReconnectCmds # <<>> =>
              /\ first_listing # <<>>
              /\ \A k \in 1..Len(first_listing) : ~StatusIsDevice(first_listing[k])
              /\ choice \in { <<"y">>, <<"Y">> }
              /\ offline_devices = first_listing
        /\ Len(dis) <= Len(offline_devices)
        /\ \A k \in 1..Len(dis) : dis[k][2] = offline_devices[k].id
        /\ \A k \in 1..Len(cmds) :
              cmds[k][1] = "connect" =>
                  k > 1 /\ cmds[k - 1] = <<"disconnect", cmds[k][2]>>

C5_Witness ==
    /\ pc = "done"
    /\ choice = <<"Y">>
    /\ Len(CmdsNamed("disconnect")) = 2
    /\ Len(CmdsNamed("connect")) = 1
    /\ offline_devices[1].id # offline_devices[2].id

(***************************************************************************)
(* C10 (Spec): when main has returned, a returned id is the id of a record *)
(* with status device in the latest listing main obtained, and main        *)
(* returned None when that listing has no such record or the first         *)
(* listing was empty.                                                      *)
(***************************************************************************)
LatestListing ==
    IF CommandFailed(adb_result) THEN <<>>
    ELSE RecordsOf(Tail(SplitOn(Strip(adb_result.stdout), "\n")))

C10_ReturnedIdOnline ==
    pc = "done" =>
        LET latest == LatestListing
        IN  /\ ret # None =>
                  \E k \in 1..Len(latest) :
                      /\ latest[k].id = ret[1]
                      /\ StatusIsDevice(latest[k])
            /\ (\A k \in 1..Len(latest) : ~StatusIsDevice(latest[k])) => ret = None
            /\ first_listing = <<>> => ret = None

C10_Witness ==
    /\ pc = "done"
    /\ ret # None
    /\ Len(CmdsNamed("devices")) = 3
    /\ Len(reads) = 1
    /\ Len(LatestListing) = 2
    /\ ret[1] = LatestListing[1].id

====
